---- MODULE Spec2Model ----
(***************************************************************************)
(* Blackjack simulator: the round controller (src/src/game.py), the        *)
(* player's bankroll (src/src/player.py), the dealer (src/src/dealer.py),  *)
(* the hand valuation (src/src/hand.py), the shoe (src/src/deck.py) and    *)
(* the decision strategies (src/src/strategies.py).                        *)
(*                                                                         *)
(* Python semantics the model keeps:                                       *)
(*  - Hand.is_blackjack is a @property (hand.py:62-63).  game.py:60, :64   *)
(*    and :141 write `hand.is_blackjack()`: the property is read (a bool,  *)
(*    or AttributeError when the hand holds None) and the bool is then     *)
(*    called, which raises TypeError.  The condition of game.py:60 is      *)
(*    evaluated in every round that gets past the bet, so start_round      *)
(*    never returns True: it returns False (insufficient funds) or raises. *)
(*  - Deck.deal() returns None on an empty shoe (deck.py:50-51) and        *)
(*    Hand.add_card appends whatever it is given (hand.py:22-24).          *)
(*  - An exception leaves the objects as they were when it was raised; the *)
(*    Game can be called again by a caller that caught it.                 *)
(***************************************************************************)
EXTENDS Integers, Sequences, FiniteSets, TLC

(***************************************************************************)
(* Bounds of the model.                                                    *)
(***************************************************************************)
\* Game(num_decks=...): number of 52-card decks in the shoe.
NumDecks == 1
\* Number of cards on top of the freshly shuffled shoe whose order is enumerated.
TopLen == 4
\* Game(bet=...) ranges over MinBet..MaxBet.
MinBet == 2
MaxBet == 3
\* Player(bankroll=...) is either LowBankroll or HighBankroll.
LowBankroll == 1
HighBankroll == 4
\* Deck.deal_multiple(count) is called with count = BigDeal, and only while fewer than
\* BigDeal cards have been dealt from the shoe.
BigDeal == 49

(***************************************************************************)
(* card.py                                                                 *)
(***************************************************************************)
\* The members of Suit, in definition order.
SuitNames == <<"SPADES", "HEARTS", "DIAMONDS", "CLUBS">>

\* The members of Rank, in definition order.
RankNames == <<"TWO", "THREE", "FOUR", "FIVE", "SIX", "SEVEN", "EIGHT", "NINE",
               "TEN", "JACK", "QUEEN", "KING", "ACE">>

\* Rank.numeric_value: the second component of the member's value.
numeric_value(rank) ==
  CASE rank = "TWO" -> 2
    [] rank = "THREE" -> 3
    [] rank = "FOUR" -> 4
    [] rank = "FIVE" -> 5
    [] rank = "SIX" -> 6
    [] rank = "SEVEN" -> 7
    [] rank = "EIGHT" -> 8
    [] rank = "NINE" -> 9
    [] rank = "TEN" -> 10
    [] rank = "JACK" -> 10
    [] rank = "QUEEN" -> 10
    [] rank = "KING" -> 10
    [] rank = "ACE" -> 11

\* Card(rank, suit)
Card(r, s) == [rank |-> r, suit |-> s]

\* Python's None where a Card is expected (the empty signal of Deck.deal).
None == [rank |-> "None", suit |-> "None"]

\* Card.value
card_value(card) == numeric_value(card.rank)

\* Card.is_ace
is_ace(card) == card.rank = "ACE"

\* Card.is_ten_value
is_ten_value(card) == card_value(card) = 10

(***************************************************************************)
(* hand.py                                                                 *)
(***************************************************************************)
\* Reading an attribute of a card of the hand raises AttributeError on None.
HasNone(cards) == \E i \in 1..Len(cards) : cards[i] = None

RECURSIVE RawSum(_)
\* The first loop of Hand.value: every Ace counted as 11.
RawSum(cards) ==
  IF cards = <<>> THEN 0 ELSE card_value(Head(cards)) + RawSum(Tail(cards))

RECURSIVE NumAces(_)
\* num_aces of Hand.value.
NumAces(cards) ==
  IF cards = <<>> THEN 0
  ELSE (IF is_ace(Head(cards)) THEN 1 ELSE 0) + NumAces(Tail(cards))

RECURSIVE Demote(_, _)
\* The second loop of Hand.value: while value > 21 and num_aces > 0.
Demote(v, aces) == IF v > 21 /\ aces > 0 THEN Demote(v - 10, aces - 1) ELSE v

\* Hand.value with the second loop run at most once: a single Ace demoted.
hand_value_demotes_once(cards) ==
  IF RawSum(cards) > 21 /\ NumAces(cards) > 0 THEN RawSum(cards) - 10 ELSE RawSum(cards)

\* Hand.value (of a hand without None)
hand_value(cards) == Demote(RawSum(cards), NumAces(cards))

\* any(pred(card) for card in cards) raises AttributeError: the generator reaches a
\* None before any card that satisfies pred.
AnyRaises(cards, pred(_)) ==
  \E i \in 1..Len(cards) :
    /\ cards[i] = None
    /\ \A j \in 1..(i - 1) : ~pred(cards[j])

\* Reading the property Hand.is_blackjack raises AttributeError.
is_blackjack_raises(cards) ==
  /\ Len(cards) = 2
  /\ (AnyRaises(cards, is_ace) \/ AnyRaises(cards, is_ten_value))

\* Hand.is_blackjack without the check of the number of cards (hand.py:65-66).
is_blackjack_any_length(cards) ==
  /\ \E i \in 1..Len(cards) : is_ace(cards[i])
  /\ \E i \in 1..Len(cards) : is_ten_value(cards[i])

\* The value of the property Hand.is_blackjack (of a hand it does not raise on).
is_blackjack(cards) ==
  /\ Len(cards) = 2
  /\ \E i \in 1..2 : is_ace(cards[i])
  /\ \E i \in 1..2 : is_ten_value(cards[i])

\* Hand.is_soft
is_soft(cards) ==
  /\ \E i \in 1..Len(cards) : is_ace(cards[i])
  /\ RawSum(cards) <= 21

\* Hand.is_pair
is_pair(cards) == Len(cards) = 2 /\ cards[1].rank = cards[2].rank

(***************************************************************************)
(* strategies.py                                                           *)
(***************************************************************************)
\* The strategy classes.
Strategies == {"Basic", "Conservative", "Aggressive", "Martingale", "CardCounting"}

\* The pair branch with 9/9 split against every dealer card.
BasicSplits_nines_always(cards, dealer_value) ==
  LET name == cards[1].rank
  IN CASE name \in {"ACE", "EIGHT", "NINE"} -> TRUE
       [] name \in {"TWO", "THREE", "SEVEN"} -> 2 <= dealer_value /\ dealer_value <= 7
       [] name = "FOUR" -> dealer_value \in {5, 6}
       [] name = "SIX" -> 2 <= dealer_value /\ dealer_value <= 6
       [] OTHER -> FALSE

\* BasicStrategy.decide, the pair branch: TRUE when it returns SPLIT.
BasicSplits(cards, dealer_value) ==
  LET name == cards[1].rank
  IN CASE name \in {"ACE", "EIGHT"} -> TRUE
       [] name \in {"TEN", "JACK", "QUEEN", "KING", "FIVE"} -> FALSE
       [] name = "NINE" -> dealer_value \notin {7, 10, 11}
       [] name \in {"TWO", "THREE", "SEVEN"} -> 2 <= dealer_value /\ dealer_value <= 7
       [] name = "FOUR" -> dealer_value \in {5, 6}
       [] name = "SIX" -> 2 <= dealer_value /\ dealer_value <= 6
       [] OTHER -> FALSE

\* BasicStrategy.decide, the soft-hand branch.
BasicSoft(player_value, dealer_value, can_double) ==
  IF player_value >= 19 THEN "STAND"
  ELSE IF player_value = 18 THEN
    IF dealer_value <= 8 THEN
      IF ~can_double THEN "STAND"
      ELSE IF dealer_value \in {3, 4, 5, 6} THEN "DOUBLE_DOWN" ELSE "STAND"
    ELSE "HIT"
  ELSE IF player_value = 17 THEN
    IF can_double /\ dealer_value \in {3, 4, 5, 6} THEN "DOUBLE_DOWN" ELSE "HIT"
  ELSE IF player_value \in {15, 16} THEN
    IF can_double /\ dealer_value \in {4, 5, 6} THEN "DOUBLE_DOWN" ELSE "HIT"
  ELSE IF player_value \in {13, 14} THEN
    IF can_double /\ dealer_value \in {5, 6} THEN "DOUBLE_DOWN" ELSE "HIT"
  ELSE "HIT"

\* The hard-hand branch with the dealer's card ignored from 13 to 16: always STAND.
BasicHard_stands_from_13(player_value, dealer_value, can_double) ==
  IF player_value >= 13 THEN "STAND"
  ELSE IF player_value = 12 THEN
    IF 4 <= dealer_value /\ dealer_value <= 6 THEN "STAND" ELSE "HIT"
  ELSE IF player_value = 11 THEN
    IF can_double THEN "DOUBLE_DOWN" ELSE "HIT"
  ELSE IF player_value = 10 THEN
    IF can_double /\ dealer_value <= 9 THEN "DOUBLE_DOWN" ELSE "HIT"
  ELSE IF player_value = 9 THEN
    IF can_double /\ 3 <= dealer_value /\ dealer_value <= 6 THEN "DOUBLE_DOWN" ELSE "HIT"
  ELSE "HIT"

\* BasicStrategy.decide, the hard-hand branch.
BasicHard(player_value, dealer_value, can_double) ==
  IF player_value >= 17 THEN "STAND"
  ELSE IF player_value >= 13 THEN
    IF dealer_value <= 6 THEN "STAND" ELSE "HIT"
  ELSE IF player_value = 12 THEN
    IF 4 <= dealer_value /\ dealer_value <= 6 THEN "STAND" ELSE "HIT"
  ELSE IF player_value = 11 THEN
    IF can_double THEN "DOUBLE_DOWN" ELSE "HIT"
  ELSE IF player_value = 10 THEN
    IF can_double /\ dealer_value <= 9 THEN "DOUBLE_DOWN" ELSE "HIT"
  ELSE IF player_value = 9 THEN
    IF can_double /\ 3 <= dealer_value /\ dealer_value <= 6 THEN "DOUBLE_DOWN" ELSE "HIT"
  ELSE "HIT"

\* BasicStrategy.decide
BasicDecide(cards, dealer_card, can_double, can_split) ==
  LET player_value == hand_value(cards)
      dealer_value == card_value(dealer_card)
  IN IF is_pair(cards) /\ can_split /\ BasicSplits(cards, dealer_value) THEN "SPLIT"
     ELSE IF is_soft(cards) THEN BasicSoft(player_value, dealer_value, can_double)
     ELSE BasicHard(player_value, dealer_value, can_double)

\* ConservativeStrategy.decide without the Ace test of strategies.py:162: any pair split.
ConservativeDecide_splits_any_pair(cards, dealer_card, can_double, can_split) ==
  IF is_pair(cards) /\ can_split THEN "SPLIT"
  ELSE IF hand_value(cards) >= 12 THEN "STAND"
  ELSE "HIT"

\* ConservativeStrategy.decide
ConservativeDecide(cards, dealer_card, can_double, can_split) ==
  IF is_pair(cards) /\ can_split /\ is_ace(cards[1]) THEN "SPLIT"
  ELSE IF hand_value(cards) >= 12 THEN "STAND"
  ELSE "HIT"

\* AggressiveStrategy.decide hitting below 17 instead of below 18.
AggressiveDecide_hits_below_17(cards, dealer_card, can_double, can_split) ==
  LET player_value == hand_value(cards)
  IN IF /\ is_pair(cards)
        /\ can_split
        /\ cards[1].rank \notin {"TEN", "JACK", "QUEEN", "KING", "FIVE"}
     THEN "SPLIT"
     ELSE IF can_double /\ 9 <= player_value /\ player_value <= 12 THEN "DOUBLE_DOWN"
     ELSE IF player_value < 17 THEN "HIT"
     ELSE "STAND"

\* AggressiveStrategy.decide
AggressiveDecide(cards, dealer_card, can_double, can_split) ==
  LET player_value == hand_value(cards)
  IN IF /\ is_pair(cards)
        /\ can_split
        /\ cards[1].rank \notin {"TEN", "JACK", "QUEEN", "KING", "FIVE"}
     THEN "SPLIT"
     ELSE IF can_double /\ 9 <= player_value /\ player_value <= 12 THEN "DOUBLE_DOWN"
     ELSE IF player_value < 18 THEN "HIT"
     ELSE "STAND"

\* MartingaleStrategy.decide
MartingaleDecide(cards, dealer_card, can_double, can_split) ==
  BasicDecide(cards, dealer_card, can_double, can_split)

\* CardCountingStrategy.decide
CardCountingDecide(cards, dealer_card, can_double, can_split) ==
  BasicDecide(cards, dealer_card, can_double, can_split)

\* strategy.decide(hand, dealer_card, can_double, can_split), by the class of strategy.
decide(strat, cards, dealer_card, can_double, can_split) ==
  CASE strat = "Basic" -> BasicDecide(cards, dealer_card, can_double, can_split)
    [] strat = "Conservative" -> ConservativeDecide(cards, dealer_card, can_double, can_split)
    [] strat = "Aggressive" -> AggressiveDecide(cards, dealer_card, can_double, can_split)
    [] strat = "Martingale" -> MartingaleDecide(cards, dealer_card, can_double, can_split)
    [] strat = "CardCounting" -> CardCountingDecide(cards, dealer_card, can_double, can_split)

\* The state a strategy object keeps besides its class is carried, like the game's
\* fields, in a record g: consecutive_losses (Martingale), running_count and
\* cards_seen (CardCounting).

\* BasicStrategy.should_take_insurance
BasicInsurance == FALSE

\* ConservativeStrategy.should_take_insurance
ConservativeInsurance == TRUE

\* AggressiveStrategy.should_take_insurance
AggressiveInsurance == FALSE

\* A variant of MartingaleStrategy.should_take_insurance that insures once a loss is
\* recorded.
MartingaleInsurance_after_a_loss(g) == g.consecutive_losses > 0

\* MartingaleStrategy.should_take_insurance
MartingaleInsurance(g) == FALSE

\* The default of get_true_count's parameter decks_remaining (4.0).
DecksRemaining == 4

\* CardCountingStrategy.get_true_count() >= n: running_count / 4.0 >= n.
true_count_at_least(g, n) == g.running_count >= n * DecksRemaining

\* CardCountingStrategy.should_take_insurance
CardCountingInsurance(g) == true_count_at_least(g, 3)

\* strategy.should_take_insurance(hand, dealer_card), by the class of strategy; no
\* class reads the hand or the dealer card.
should_take_insurance(strat, g) ==
  CASE strat = "Basic" -> BasicInsurance
    [] strat = "Conservative" -> ConservativeInsurance
    [] strat = "Aggressive" -> AggressiveInsurance
    [] strat = "Martingale" -> MartingaleInsurance(g)
    [] strat = "CardCounting" -> CardCountingInsurance(g)

\* A variant of MartingaleStrategy.get_bet_multiplier that grows by one per loss.
get_bet_multiplier_linear(g) == 1 + g.consecutive_losses

\* MartingaleStrategy.get_bet_multiplier
get_bet_multiplier(g) == 2 ^ g.consecutive_losses

\* MartingaleStrategy.record_loss
record_loss(g) == [g EXCEPT !.consecutive_losses = @ + 1]

\* MartingaleStrategy.record_win
record_win(g) == [g EXCEPT !.consecutive_losses = 0]

\* MartingaleStrategy.reset
martingale_reset(g) == [g EXCEPT !.consecutive_losses = 0]

\* A variant of CardCountingStrategy.update_count that counts an Ace as neutral.
update_count_ace_neutral(g, card) ==
  LET value == card_value(card)
  IN [g EXCEPT !.cards_seen = @ + 1,
               !.running_count = IF 2 <= value /\ value <= 6 THEN @ + 1
                                 ELSE IF value = 10 THEN @ - 1
                                 ELSE @]

\* CardCountingStrategy.update_count
update_count(g, card) ==
  LET value == card_value(card)
  IN [g EXCEPT !.cards_seen = @ + 1,
               !.running_count = IF 2 <= value /\ value <= 6 THEN @ + 1
                                 ELSE IF value >= 10 \/ is_ace(card) THEN @ - 1
                                 ELSE @]

\* CardCountingStrategy.get_running_count
get_running_count(g) == g.running_count

\* CardCountingStrategy.reset
counting_reset(g) == [g EXCEPT !.running_count = 0, !.cards_seen = 0]

(***************************************************************************)
(* State: one Game with its Player, Dealer and Deck.                       *)
(***************************************************************************)
VARIABLES
  deck_cards,    \* game.deck._cards: the remaining cards; the last one is dealt next
  dealt_cards,   \* game.deck._dealt_cards
  player_hand,   \* game.player.hand._cards
  dealer_hand,   \* game.dealer.hand._cards
  bankroll,      \* game.player.bankroll
  current_bet,   \* game.player.current_bet
  round_active,  \* game.round_active
  bet,           \* game.bet, fixed at construction
  strategy,      \* the class of game.player.strategy, fixed at construction
  split_hands,   \* game.player.hands[1:]; hands[0] is the object player.hand itself
  consecutive_losses,  \* strategy._consecutive_losses (MartingaleStrategy)
  running_count, \* strategy._running_count (CardCountingStrategy)
  cards_seen,    \* strategy._cards_seen (CardCountingStrategy)
  observed,      \* history: the cards passed to update_count since the strategy was
                 \* created or last reset
  last           \* the last call made on the game: its name, what it returned or raised,
                 \* and the bankroll and the number of remaining cards when it was made

vars == <<deck_cards, dealt_cards, player_hand, dealer_hand, bankroll, current_bet,
          round_active, bet, strategy, split_hands, consecutive_losses, running_count,
          cards_seen, observed, last>>

\* The mutable fields of the game as one value, for the operators below.
G == [deck_cards |-> deck_cards, dealt_cards |-> dealt_cards,
      player_hand |-> player_hand, dealer_hand |-> dealer_hand,
      bankroll |-> bankroll, current_bet |-> current_bet,
      round_active |-> round_active, split_hands |-> split_hands,
      consecutive_losses |-> consecutive_losses, running_count |-> running_count,
      cards_seen |-> cards_seen]

(***************************************************************************)
(* deck.py                                                                 *)
(***************************************************************************)
\* Deck.total_cards
total_cards == NumDecks * 52

\* Deck.reset: for each deck, for each suit, for each rank, append Card(rank, suit).
ResetCards ==
  [i \in 1..total_cards |->
     Card(RankNames[((i - 1) % 13) + 1], SuitNames[(((i - 1) \div 13) % 4) + 1])]

\* Deck.deal without the record of the dealt card (deck.py:54 left out).
deal_keeps_no_record(g) ==
  IF g.deck_cards = <<>> THEN [g |-> g, card |-> None]
  ELSE LET n == Len(g.deck_cards)
       IN [g |-> [g EXCEPT !.deck_cards = SubSeq(@, 1, n - 1)],
           card |-> g.deck_cards[n]]

\* Deck.deal: None on an empty shoe, else pop the last card and record it as dealt.
deal(g) ==
  IF g.deck_cards = <<>> THEN [g |-> g, card |-> None]
  ELSE LET n == Len(g.deck_cards)
           card == g.deck_cards[n]
       IN [g |-> [g EXCEPT !.deck_cards = SubSeq(@, 1, n - 1),
                           !.dealt_cards = Append(@, card)],
           card |-> card]

RECURSIVE deal_multiple(_, _)
\* Deck.deal_multiple(count): deal until count cards are dealt or the shoe is empty.
deal_multiple(g, count) ==
  IF count = 0 \/ g.deck_cards = <<>> THEN [g |-> g, cards |-> <<>>]
  ELSE LET d == deal(g)
           rest == deal_multiple(d.g, count - 1)
       IN [g |-> rest.g, cards |-> <<d.card>> \o rest.cards]

(***************************************************************************)
(* player.py, dealer.py                                                    *)
(***************************************************************************)
\* A plausible slip of place_bet: the amount is deducted before the funds check.
place_bet_deducts_first(g, amount) ==
  [g |-> [g EXCEPT !.bankroll = @ - amount, !.current_bet = @ + amount],
   ret |-> ~(amount > g.bankroll)]

\* Player.place_bet(amount)
place_bet(g, amount) ==
  IF amount > g.bankroll THEN [g |-> g, ret |-> FALSE]
  ELSE [g |-> [g EXCEPT !.bankroll = @ - amount, !.current_bet = @ + amount],
        ret |-> TRUE]

\* Player.win(amount)
win(g, amount) == [g EXCEPT !.bankroll = @ + amount]

\* Player.clear_hands and Dealer.clear_hand
clear_hands(g) ==
  [g EXCEPT !.player_hand = <<>>, !.split_hands = <<>>, !.current_bet = 0,
            !.dealer_hand = <<>>]

\* self.player.add_card(self.deck.deal())
deal_to_player(g) ==
  LET d == deal(g) IN [d.g EXCEPT !.player_hand = Append(@, d.card)]

\* self.dealer.add_card(self.deck.deal())
deal_to_dealer(g) ==
  LET d == deal(g) IN [d.g EXCEPT !.dealer_hand = Append(@, d.card)]

\* Dealer.should_hit (of a hand without None)
should_hit(cards) == hand_value(cards) < 17

(***************************************************************************)
(* game.py                                                                 *)
(***************************************************************************)
\* A plausible slip of the initial deal: both player cards first, then the dealer's.
initial_deal_player_first(g) ==
  deal_to_dealer(deal_to_dealer(deal_to_player(deal_to_player(g))))

\* Game.start_round, "Deal initial cards": player, dealer, player, dealer.
initial_deal(g) ==
  deal_to_dealer(deal_to_player(deal_to_dealer(deal_to_player(g))))

\* `hand.is_blackjack()`: the property is read, then its bool value is called.
call_is_blackjack(cards) ==
  IF is_blackjack_raises(cards) THEN "AttributeError" ELSE "TypeError"

\* Game.start_round.  ret is the returned bool when exc = "none"; otherwise exc is
\* the exception raised.  The statements after the condition of game.py:60 are never
\* executed: evaluating that condition raises in every case.
start_round(g) ==
  IF g.bankroll < bet THEN [g |-> g, ret |-> FALSE, exc |-> "none"]
  ELSE LET pb == place_bet(g, bet)
       IN IF ~pb.ret THEN [g |-> pb.g, ret |-> FALSE, exc |-> "none"]
          ELSE LET dealt == initial_deal(clear_hands(pb.g))
                   active == [dealt EXCEPT !.round_active = TRUE]
               IN [g |-> active, ret |-> FALSE,
                   exc |-> call_is_blackjack(active.dealer_hand)]

RECURSIVE player_turn(_)
\* Game.play_auto, "Player's turn": the loop of game.py:80-100.
player_turn(g) ==
  IF HasNone(g.player_hand) \/ HasNone(g.dealer_hand)
  THEN [g |-> g, exc |-> "AttributeError"]
  ELSE IF ~(hand_value(g.player_hand) < 21) THEN [g |-> g, exc |-> "none"]
  ELSE LET action == decide(strategy, g.player_hand, g.dealer_hand[1], TRUE,
                            is_pair(g.player_hand))
       IN CASE action = "HIT" -> player_turn(deal_to_player(g))
            [] action = "DOUBLE_DOWN" ->
                 [g |-> deal_to_player(place_bet(g, bet).g), exc |-> "none"]
            [] OTHER -> [g |-> g, exc |-> "none"]

RECURSIVE dealer_turn(_)
\* Game.play_auto, "Dealer's turn": while self.dealer.should_hit().
dealer_turn(g) ==
  IF HasNone(g.dealer_hand) THEN [g |-> g, exc |-> "AttributeError"]
  ELSE IF should_hit(g.dealer_hand) THEN dealer_turn(deal_to_dealer(g))
  ELSE [g |-> g, exc |-> "none"]

\* Game._determine_winner (of hands without None)
determine_winner(g) ==
  LET player_value == hand_value(g.player_hand)
      dealer_value == hand_value(g.dealer_hand)
  IN IF dealer_value > 21 THEN [g |-> win(g, bet * 2), ret |-> "win"]
     ELSE IF player_value > dealer_value THEN [g |-> win(g, bet * 2), ret |-> "win"]
     ELSE IF player_value < dealer_value THEN [g |-> g, ret |-> "loss"]
     ELSE [g |-> win(g, bet), ret |-> "push"]

\* Game.play_auto after a start_round that returned True (game.py:79-111).
play_round(g) ==
  LET pt == player_turn(g)
  IN IF pt.exc # "none" THEN [g |-> pt.g, ret |-> pt.exc]
     ELSE IF HasNone(pt.g.player_hand) THEN [g |-> pt.g, ret |-> "AttributeError"]
     ELSE IF hand_value(pt.g.player_hand) > 21 THEN [g |-> pt.g, ret |-> "loss"]
     ELSE LET dt == dealer_turn(pt.g)
          IN IF dt.exc # "none" THEN [g |-> dt.g, ret |-> dt.exc]
             ELSE determine_winner(dt.g)

\* A variant of Game.play_auto that reports the round to the strategy with record_loss.
play_auto_recording_a_loss(g) ==
  LET sr == start_round(g)
      r == IF sr.exc # "none" THEN [g |-> sr.g, ret |-> sr.exc]
           ELSE IF ~sr.ret THEN [g |-> sr.g, ret |-> "loss"]
           ELSE play_round(sr.g)
  IN [g |-> record_loss(r.g), ret |-> r.ret]

\* Game.play_auto.  ret is the returned string, or the name of the exception raised.
play_auto(g) ==
  LET sr == start_round(g)
  IN IF sr.exc # "none" THEN [g |-> sr.g, ret |-> sr.exc]
     ELSE IF ~sr.ret THEN [g |-> sr.g, ret |-> "loss"]
     ELSE play_round(sr.g)

(***************************************************************************)
(* Initial states: Game(player=Player(bankroll, strategy), bet, num_decks). *)
(***************************************************************************)
\* The cards whose order on top of the shuffled shoe is enumerated.
TopPool == {Card("ACE", "CLUBS"), Card("KING", "CLUBS"), Card("QUEEN", "CLUBS"),
            Card("SIX", "CLUBS"), Card("FIVE", "CLUBS"), Card("ACE", "DIAMONDS")}

\* Player(): one hand, no split hand.  A strategy object as its constructor leaves it:
\* no loss recorded, no card counted.
NewPlayer ==
  /\ split_hands = <<>>
  /\ consecutive_losses = 0
  /\ running_count = 0
  /\ cards_seen = 0
  /\ observed = <<>>

\* The orders of TopLen distinct cards of TopPool.
TopOrders ==
  {t \in [1..TopLen -> TopPool] : \A i, j \in 1..TopLen : i # j => t[i] # t[j]}

\* Low cards whose every order on top of the shuffled shoe is enumerated as well.
LowPool == {Card("TWO", "CLUBS"), Card("THREE", "CLUBS"), Card("FOUR", "CLUBS"),
            Card("SIX", "CLUBS")}

\* The orders of the cards of LowPool.
LowOrders ==
  {t \in [1..Cardinality(LowPool) -> LowPool] :
     \A i, j \in 1..Cardinality(LowPool) : i # j => t[i] # t[j]}

RECURSIVE RemoveOne(_, _)
\* seq without the first occurrence of card.
RemoveOne(seq, card) ==
  IF seq = <<>> THEN <<>>
  ELSE IF Head(seq) = card THEN Tail(seq)
  ELSE <<Head(seq)>> \o RemoveOne(Tail(seq), card)

RECURSIVE RemoveEach(_, _)
\* seq without one occurrence of each card of cards.
RemoveEach(seq, cards) ==
  IF cards = <<>> THEN seq
  ELSE RemoveEach(RemoveOne(seq, Head(cards)), Tail(cards))

\* A result of random.shuffle on the reset shoe: the cards of top moved to the top,
\* the others left in reset order.
Shuffled(top) == RemoveEach(ResetCards, top) \o top

Init ==
  /\ \E top \in TopOrders \cup LowOrders : deck_cards = Shuffled(top)
  /\ dealt_cards = <<>>
  /\ player_hand = <<>>
  /\ dealer_hand = <<>>
  /\ bankroll \in {LowBankroll, HighBankroll}
  /\ current_bet = 0
  /\ round_active = FALSE
  /\ bet \in MinBet..MaxBet
  /\ strategy \in Strategies
  /\ NewPlayer
  /\ last = [op |-> "init", ret |-> "none", bankroll |-> 0, remaining |-> 0]

(***************************************************************************)
(* Calls on the game.                                                      *)
(***************************************************************************)
\* The game's fields after a call that left them as g.
Becomes(g) ==
  /\ deck_cards' = g.deck_cards
  /\ dealt_cards' = g.dealt_cards
  /\ player_hand' = g.player_hand
  /\ dealer_hand' = g.dealer_hand
  /\ bankroll' = g.bankroll
  /\ current_bet' = g.current_bet
  /\ round_active' = g.round_active
  /\ split_hands' = g.split_hands
  /\ consecutive_losses' = g.consecutive_losses
  /\ running_count' = g.running_count
  /\ cards_seen' = g.cards_seen
  /\ UNCHANGED <<bet, strategy, observed>>

\* The record of a call: its name and result, and the state it was made in.
Called(op, ret) ==
  last' = [op |-> op, ret |-> ret, bankroll |-> bankroll,
           remaining |-> Len(deck_cards)]

\* How a bool result is recorded.
BoolName(b) == IF b THEN "True" ELSE "False"

\* game.play_auto()
PlayAuto ==
  \E r \in {play_auto(G)} :
    Becomes(r.g) /\ Called("play_auto", r.ret)

\* game.start_round()
StartRound ==
  \E r \in {start_round(G)} :
     /\ Becomes(r.g)
     /\ Called("start_round", IF r.exc # "none" THEN r.exc ELSE BoolName(r.ret))

\* game.player.place_bet(game.bet)
PlaceBet ==
  \E r \in {place_bet(G, bet)} :
    Becomes(r.g) /\ Called("place_bet", BoolName(r.ret))

\* game.deck.deal_multiple(BigDeal)
DealMultiple ==
  /\ Len(dealt_cards) < BigDeal
  /\ \E r \in {deal_multiple(G, BigDeal)} :
       Becomes(r.g) /\ Called("deal_multiple", "list")

Next == PlayAuto \/ StartRound \/ PlaceBet \/ DealMultiple

Spec == Init /\ [][Next]_vars

(***************************************************************************)
(* Vocabulary of the properties.  A call is described by `last` (what was  *)
(* called, what it returned or raised, the bankroll B and the number of    *)
(* remaining cards when it was made) and by the state it left.             *)
(***************************************************************************)
\* The strings play_auto is documented to return.
Results == {"win", "loss", "push"}

\* The last call was play_auto, entered with bankroll >= bet on a shoe that held the
\* four cards of the initial deal.
RoundCall ==
  last.op = "play_auto" /\ last.bankroll >= bet /\ last.remaining >= 4

\* The last call was start_round, entered in the same conditions.
StartCall ==
  last.op = "start_round" /\ last.bankroll >= bet /\ last.remaining >= 4

\* The number of cards the last call took from the shoe.
Drawn == last.remaining - Len(deck_cards)

\* The game as the initial deal of the last round left it: the first two cards of each
\* hand, the cards drawn after the deal back on the shoe, the base bet deducted.
AfterDeal ==
  LET n == Len(dealt_cards)
      extra == Drawn - 4
  IN [deck_cards |-> deck_cards \o [i \in 1..extra |-> dealt_cards[n + 1 - i]],
      dealt_cards |-> SubSeq(dealt_cards, 1, n - extra),
      player_hand |-> SubSeq(player_hand, 1, 2),
      dealer_hand |-> SubSeq(dealer_hand, 1, 2),
      bankroll |-> last.bankroll - bet,
      current_bet |-> 0,
      round_active |-> TRUE,
      split_hands |-> <<>>,
      consecutive_losses |-> consecutive_losses,
      running_count |-> running_count,
      cards_seen |-> cards_seen]

PlayerNatural == is_blackjack(AfterDeal.player_hand)
DealerNatural == is_blackjack(AfterDeal.dealer_hand)
NoNatural == ~PlayerNatural /\ ~DealerNatural

\* The player's turn and the dealer's turn of the round, as the order of the shoe and
\* the strategy determine them from the initial deal.
PlayerEnd == player_turn(AfterDeal)
DealerEnd == dealer_turn(PlayerEnd.g)

\* The shoe holds the cards the player's turn needs; the player's final value.
PlayerServed == PlayerEnd.exc = "none" /\ ~HasNone(PlayerEnd.g.player_hand)
PlayerValue == hand_value(PlayerEnd.g.player_hand)

\* The round gets to the dealer's turn, and the shoe holds the cards it needs.
ReachesDealer ==
  NoNatural /\ PlayerServed /\ PlayerValue <= 21 /\ DealerEnd.exc = "none"
DealerValue == hand_value(DealerEnd.g.dealer_hand)

\* The shoe holds enough cards for the round.
EnoughCards ==
  \/ ~NoNatural
  \/ PlayerServed /\ (PlayerValue > 21 \/ DealerEnd.exc = "none")

\* C1: every play_auto call entered with bankroll >= bet on a shoe that holds enough
\* cards for the round completes without raising and returns "win", "loss" or "push",
\* whatever the order of the shoe and the strategy.
C1_PlayAutoReturnsResult ==
  (RoundCall /\ EnoughCards) => last.ret \in Results

\* C2: when the round reaches settlement (player not bust, dealer's turn over): dealer
\* above 21 or player above dealer: credited exactly 2*bet and "win"; player below
\* dealer: nothing credited and "loss"; equal values: exactly bet credited and "push".
C2_SettlementPays ==
  (RoundCall /\ ReachesDealer) =>
    LET staked == PlayerEnd.g.bankroll
    IN /\ (DealerValue > 21 \/ PlayerValue > DealerValue)
            => (last.ret = "win" /\ bankroll = staked + 2 * bet)
       /\ (DealerValue <= 21 /\ PlayerValue < DealerValue)
            => (last.ret = "loss" /\ bankroll = staked)
       /\ (PlayerValue = DealerValue)
            => (last.ret = "push" /\ bankroll = staked + bet)

\* No card was dealt after the four cards of the initial deal.
OnlyInitialDeal ==
  Len(player_hand) = 2 /\ Len(dealer_hand) = 2 /\ Drawn = 4

\* C3: after start_round has dealt the four cards: a dealer natural settles the round
\* inside start_round (exactly bet credited when the player also holds a natural,
\* nothing otherwise); else a player natural is credited exactly floor(2.5*bet); in
\* both cases no further card is dealt in the round.
C3_NaturalsSettledAtDeal ==
  ((StartCall \/ RoundCall) /\ ~NoNatural) =>
    /\ OnlyInitialDeal
    /\ (DealerNatural /\ PlayerNatural) => (bankroll = last.bankroll - bet + bet)
    /\ (DealerNatural /\ ~PlayerNatural) => (bankroll = last.bankroll - bet)
    /\ (~DealerNatural /\ PlayerNatural)
         => (bankroll = last.bankroll - bet + ((5 * bet) \div 2))

\* C4: when the bankroll is at least the base bet (and the shoe holds the next four
\* cards), start_round deducts exactly the base bet, replaces both hands and deals the
\* next four cards of the shoe player, dealer, player, dealer (the upcard being the
\* second card dealt), and sets round_active.
C4_StartRoundDeals ==
  [][(last'.op = "start_round" /\ bankroll >= bet /\ Len(deck_cards) >= 4) =>
       LET n == Len(deck_cards)
       IN /\ bankroll' = bankroll - bet
          /\ player_hand' = <<deck_cards[n], deck_cards[n - 2]>>
          /\ dealer_hand' = <<deck_cards[n - 1], deck_cards[n - 3]>>
          /\ deck_cards' = SubSeq(deck_cards, 1, n - 4)
          /\ round_active' = TRUE]_vars

\* A start_round call that got past the bet and dealt: two cards in each hand, the
\* round active, the bet deducted.
C4_Witness ==
  /\ StartCall
  /\ Len(player_hand) = 2 /\ Len(dealer_hand) = 2
  /\ round_active
  /\ bankroll = last.bankroll - bet

\* C5: when the base bet exceeds the bankroll, place_bet returns failure and
\* start_round returns false, and bankroll, current_bet, both hands, the shoe
\* (remaining and dealt cards) and round_active are as before the call.
C5_InsufficientFundsNoMutation ==
  [][(bet > bankroll /\ last'.op \in {"place_bet", "start_round"}) =>
       /\ last'.ret = "False"
       /\ UNCHANGED <<deck_cards, dealt_cards, player_hand, dealer_hand, bankroll,
                      current_bet, round_active>>]_vars

\* A start_round call refused for lack of funds after a round had dealt cards.
C5_Witness ==
  /\ last.op = "start_round" /\ last.ret = "False"
  /\ last.bankroll < bet
  /\ Len(player_hand) = 2 /\ round_active

\* The first k cards of the player's hand and the strategy's answer on them.
PlayerPrefix(k) == SubSeq(player_hand, 1, k)
Answer(k) ==
  decide(strategy, PlayerPrefix(k), dealer_hand[1], TRUE, is_pair(PlayerPrefix(k)))

\* The player's turn queried the strategy on the first k cards: the value was below 21
\* and every earlier query was answered HIT.
Queried(k) ==
  /\ hand_value(PlayerPrefix(k)) < 21
  /\ \A j \in 2..(k - 1) : hand_value(PlayerPrefix(j)) < 21 /\ Answer(j) = "HIT"

\* What settlement credits for a result.
Credit(ret) == CASE ret = "win" -> 2 * bet [] ret = "push" -> bet [] OTHER -> 0

\* C6: whenever the strategy returns DOUBLE_DOWN in play_auto, an additional bet equal
\* to the base bet is placed (the bankroll is down by two bets before settlement),
\* exactly one card is drawn into the player's hand, and the player's turn ends there.
C6_DoubleDownOneCard ==
  (RoundCall /\ NoNatural /\ ~HasNone(player_hand)) =>
    \A k \in 2..Len(player_hand) :
      (Queried(k) /\ Answer(k) = "DOUBLE_DOWN") =>
        /\ Len(player_hand) = k + 1
        /\ bankroll = last.bankroll - 2 * bet + Credit(last.ret)

\* C7: if the player's hand value exceeds 21 when the player's turn ends, the round
\* resolves as "loss", the dealer's hand still holds its two initial cards and nothing
\* is credited.
C7_BustIsLoss ==
  (RoundCall /\ NoNatural /\ PlayerServed /\ PlayerValue > 21) =>
    /\ last.ret = "loss"
    /\ Len(dealer_hand) = 2
    /\ bankroll = PlayerEnd.g.bankroll

\* C8: in the dealer's turn the dealer draws exactly while the hand's value is below
\* 17, soft or hard: no card is drawn at 17 or more, and the value compared at
\* settlement is at least 17.
C8_DealerDrawsBelow17 ==
  (RoundCall /\ ReachesDealer) =>
    /\ hand_value(dealer_hand) >= 17
    /\ \A k \in 2..(Len(dealer_hand) - 1) : hand_value(SubSeq(dealer_hand, 1, k)) < 17

\* C9: in every round that reaches the dealer's turn with the dealer's two cards worth
\* 16, the dealer draws exactly one more card before the settlement comparison.
C9_Dealer16DrawsOne ==
  (RoundCall /\ ReachesDealer /\ hand_value(AfterDeal.dealer_hand) = 16) =>
    Len(dealer_hand) = 3

\* C10: entered with bankroll B >= bet, whenever play_auto returns "loss" the bankroll
\* is exactly B - bet afterwards, on every path of the round: stated of the call as it
\* ran, and of the statements of the round (game.py:79-111) run on the dealt hands.
C10_LossCostsOneBet ==
  RoundCall =>
    /\ (last.ret = "loss") => (bankroll = last.bankroll - bet)
    /\ NoNatural =>
         LET r == play_round(AfterDeal)
         IN (r.ret = "loss") => (r.g.bankroll = last.bankroll - bet)

\* C11: whenever Deck.deal() yields the empty signal during a play_auto round, the
\* round controller checks it: after the call neither the player's hand nor the
\* dealer's hand holds the empty signal.
C11_EmptySignalNeverInHands ==
  (last.op = "play_auto") => (~HasNone(player_hand) /\ ~HasNone(dealer_hand))

(***************************************************************************)
(* A Hand on its own (hand.py): built empty, cards added one at a time,    *)
(* its properties read.  The hand is kept in player_hand; the other        *)
(* objects of the state are not used.                                      *)
(***************************************************************************)
\* The largest number of cards added to the hand.
MaxHand == 4

\* The cards a hand is built from: one card of every rank.
HandCards == {Card(RankNames[i], SuitNames[1]) : i \in 1..Len(RankNames)}

\* Hand()
HandInit ==
  /\ player_hand = <<>>
  /\ dealer_hand = <<>>
  /\ deck_cards = <<>>
  /\ dealt_cards = <<>>
  /\ bankroll = 0
  /\ current_bet = 0
  /\ round_active = FALSE
  /\ bet = MinBet
  /\ strategy = "Basic"
  /\ NewPlayer
  /\ last = [op |-> "init", ret |-> "none", bankroll |-> 0, remaining |-> 0]

\* Hand.add_card
add_card(cards, card) == Append(cards, card)

\* hand.add_card(card)
HandAddCard ==
  /\ Len(player_hand) < MaxHand
  /\ \E card \in HandCards : player_hand' = add_card(player_hand, card)
  /\ Called("add_card", "none")
  /\ UNCHANGED <<deck_cards, dealt_cards, dealer_hand, bankroll, current_bet,
                 round_active, bet, strategy, split_hands, consecutive_losses,
                 running_count, cards_seen, observed>>

\* Reading a property of the hand leaves the hand as it is.
HandRead(op, ret) ==
  /\ Called(op, ret)
  /\ UNCHANGED <<deck_cards, dealt_cards, player_hand, dealer_hand, bankroll,
                 current_bet, round_active, bet, strategy, split_hands,
                 consecutive_losses, running_count, cards_seen, observed>>

\* hand.value
HandValue == HandRead("value", hand_value(player_hand))

\* hand.is_soft
HandIsSoft == HandRead("is_soft", is_soft(player_hand))

\* hand.is_blackjack
HandIsBlackjack == HandRead("is_blackjack", is_blackjack(player_hand))

HandNext == HandAddCard \/ HandValue \/ HandIsSoft \/ HandIsBlackjack

HandSpec == HandInit /\ [][HandNext]_vars

RECURSIVE Totals(_)
\* The totals of a hand obtainable by counting each Ace as 1 or as 11.
Totals(cards) ==
  IF cards = <<>> THEN {0}
  ELSE LET worth == IF Head(cards).rank = "ACE" THEN {1, 11}
                    ELSE {numeric_value(Head(cards).rank)}
       IN {w + t : w \in worth, t \in Totals(Tail(cards))}

\* The largest and the smallest number of a non-empty finite set of numbers.
Largest(S) == CHOOSE x \in S : \A y \in S : y <= x
Smallest(S) == CHOOSE x \in S : \A y \in S : x <= y

\* The best total: the largest total not above 21 when there is one, otherwise the
\* total with every Ace counted as 1.
BestTotal(cards) ==
  LET fits == {t \in Totals(cards) : t <= 21}
  IN IF fits # {} THEN Largest(fits) ELSE Smallest(Totals(cards))

\* C12: for every sequence of cards Hand.value is the best total of the hand; it
\* never exceeds the sum with every Ace counted as 11 and equals that sum when the sum
\* is at most 21.
C12_ValueIsBestTotal ==
  (last.op = "value") =>
    LET naive == Largest(Totals(player_hand))
    IN /\ last.ret = BestTotal(player_hand)
       /\ last.ret <= naive
       /\ (naive <= 21) => (last.ret = naive)

\* Four Aces alone: value read as 14.
C12_Witness ==
  /\ last.op = "value"
  /\ Len(player_hand) = 4
  /\ \A i \in 1..4 : player_hand[i].rank = "ACE"
  /\ last.ret = 14

\* The number of Aces the resolved value counts as 1: Hand.value took 10 off the
\* all-Aces-as-11 sum once for each.
DemotedAces(cards) == (Largest(Totals(cards)) - hand_value(cards)) \div 10

\* The resolved value of the hand still counts an Ace as 11.
CountsAnAceAs11(cards) ==
  /\ \E i \in 1..Len(cards) : cards[i].rank = "ACE"
  /\ DemotedAces(cards) < Cardinality({i \in 1..Len(cards) : cards[i].rank = "ACE"})

\* C13: for every hand, is_soft is true exactly when the value Hand.value resolves
\* still counts at least one Ace as 11 (the hand holds an Ace and fewer Aces were
\* demoted than it holds).
C13_SoftIffAceCountedAs11 ==
  (last.op = "is_soft") => (last.ret <=> CountsAnAceAs11(player_hand))

\* A hand of two cards, one an Ace and the other a 10, J, Q or K.
AceAndTen(cards) ==
  /\ Len(cards) = 2
  /\ \E i, j \in 1..2 :
       /\ i # j
       /\ cards[i].rank = "ACE"
       /\ cards[j].rank \in {"TEN", "JACK", "QUEEN", "KING"}

\* C14: is_blackjack is true exactly for the hands of two cards made of an Ace and a
\* ten-valued card; the value of such a hand is 21; once a further card is added
\* is_blackjack is false, even when the value is still 21.
C14_BlackjackIsTwoCardNatural ==
  /\ (last.op = "is_blackjack") =>
       /\ last.ret <=> AceAndTen(player_hand)
       /\ (Len(player_hand) > 2) => (last.ret = FALSE)
  /\ (last.op = "value" /\ AceAndTen(player_hand)) => (last.ret = 21)

\* An Ace and a ten-valued card, then a third card that keeps the value at 21:
\* is_blackjack read as false.
C14_Witness ==
  /\ last.op = "is_blackjack"
  /\ Len(player_hand) = 3
  /\ AceAndTen(SubSeq(player_hand, 1, 2))
  /\ hand_value(player_hand) = 21
  /\ last.ret = FALSE

(***************************************************************************)
(* A Deck on its own (deck.py): Deck(num_decks=NumDecks), then any         *)
(* sequence of deal, deal_multiple, shuffle and reset.  The shoe is kept   *)
(* in deck_cards and dealt_cards; the other objects are not used.          *)
(***************************************************************************)
\* shuffle() is called only while fewer than ShuffleBelow cards have been dealt.
ShuffleBelow == 3

\* The sequence in the opposite order.
Reversed(seq) == [i \in 1..Len(seq) |-> seq[Len(seq) + 1 - i]]

\* random.shuffle(cards): the orders it is taken to produce, the order as it was and
\* the opposite order.
ShuffleOrders(cards) == {cards, Reversed(cards)}

\* Deck.reset
reset(g) == [g EXCEPT !.deck_cards = ResetCards, !.dealt_cards = <<>>]

\* Deck(num_decks=NumDecks): reset(), then shuffle().
DeckInit ==
  /\ deck_cards \in ShuffleOrders(ResetCards)
  /\ dealt_cards = <<>>
  /\ player_hand = <<>>
  /\ dealer_hand = <<>>
  /\ bankroll = 0
  /\ current_bet = 0
  /\ round_active = FALSE
  /\ bet = MinBet
  /\ strategy = "Basic"
  /\ NewPlayer
  /\ last = [op |-> "init", ret |-> "none", bankroll |-> 0, remaining |-> 0]

\* deck.deal()
DeckDeal == \E r \in {deal(G)} : Becomes(r.g) /\ Called("deal", r.card)

\* deck.shuffle()
DeckShuffle ==
  /\ Len(dealt_cards) < ShuffleBelow
  /\ \E order \in ShuffleOrders(deck_cards) :
       Becomes([G EXCEPT !.deck_cards = order])
  /\ Called("shuffle", "none")

\* deck.reset()
DeckReset == Becomes(reset(G)) /\ Called("reset", "none")

DeckNext == DeckDeal \/ DealMultiple \/ DeckShuffle \/ DeckReset

DeckSpec == DeckInit /\ [][DeckNext]_vars

\* remaining + dealt_count == total_cards == 52 * num_decks
ShoeIsWhole ==
  /\ Len(deck_cards) + Len(dealt_cards) = total_cards
  /\ total_cards = 52 * NumDecks

\* C15: after any sequence of deal, deal_multiple, shuffle and reset calls,
\* remaining + dealt_count == total_cards == 52 * num_decks; a deal() on a shoe with
\* no remaining card returns the empty signal and leaves the remaining cards and the
\* dealt record unchanged; every other deal() removes exactly one card from the
\* remaining cards and appends that same card to the dealt record.
C15_ShoeConservation ==
  /\ ShoeIsWhole
  /\ [][/\ ShoeIsWhole'
        /\ (last'.op = "deal" /\ deck_cards = <<>>) =>
             (last'.ret = None /\ UNCHANGED <<deck_cards, dealt_cards>>)
        /\ (last'.op = "deal" /\ deck_cards # <<>>) =>
             \E i \in 1..Len(deck_cards) :
               /\ last'.ret = deck_cards[i]
               /\ deck_cards' = SubSeq(deck_cards, 1, i - 1)
                                  \o SubSeq(deck_cards, i + 1, Len(deck_cards))
               /\ dealt_cards' = Append(dealt_cards, deck_cards[i])]_vars

\* A deal() made on a shoe whose cards have all been dealt: the empty signal returned,
\* the whole shoe in the dealt record.
C15_Witness ==
  /\ last.op = "deal"
  /\ last.remaining = 0
  /\ last.ret = None
  /\ deck_cards = <<>>
  /\ Len(dealt_cards) = total_cards

(***************************************************************************)
(* A Strategy on its own (strategies.py): decide(hand, dealer_card,        *)
(* can_double, can_split) called on a hand built card by card.  The hand   *)
(* is kept in player_hand and the dealer's card in dealer_hand.            *)
(***************************************************************************)
\* The largest number of cards of the hand passed to decide.
MaxDecideHand == 2

MaxLosses == 3

\* n calls of update_count with a Two.
CountedLow(n) == [i \in 1..n |-> Card("TWO", SuitNames[1])]

\* The least running count at which the true count reaches 3.
InsuranceCount == 3 * DecksRemaining

\* A strategy object, a dealer card and an empty Hand.  A Martingale object is new or
\* has recorded MaxLosses losses; a CardCounting object is new or has counted
\* InsuranceCount low cards.
StrategyInit ==
  /\ player_hand = <<>>
  /\ dealer_hand \in {<<card>> : card \in HandCards}
  /\ strategy \in Strategies
  /\ deck_cards = <<>>
  /\ dealt_cards = <<>>
  /\ bankroll = 0
  /\ current_bet = 0
  /\ round_active = FALSE
  /\ bet = MinBet
  /\ split_hands = <<>>
  /\ consecutive_losses \in IF strategy = "Martingale" THEN {0, MaxLosses} ELSE {0}
  /\ \E n \in IF strategy = "CardCounting" THEN {0, InsuranceCount} ELSE {0} :
       /\ observed = CountedLow(n)
       /\ cards_seen = n
       /\ running_count = n
  /\ last = [op |-> "init", ret |-> "none", bankroll |-> 0, remaining |-> 0]

\* hand.add_card(card)
StrategyAddCard ==
  /\ Len(player_hand) < MaxDecideHand
  /\ \E card \in HandCards : player_hand' = add_card(player_hand, card)
  /\ Called("add_card", "none")
  /\ UNCHANGED <<deck_cards, dealt_cards, dealer_hand, bankroll, current_bet,
                 round_active, bet, strategy, split_hands, consecutive_losses,
                 running_count, cards_seen, observed>>

\* strategy.decide(hand, dealer_card, can_double, can_split): the call is recorded with
\* its flags and the action it returned.
StrategyDecide ==
  /\ \E can_double, can_split \in BOOLEAN :
       Called("decide",
              [action |-> decide(strategy, player_hand, dealer_hand[1],
                                 can_double, can_split),
               can_double |-> can_double,
               can_split |-> can_split])
  /\ UNCHANGED <<deck_cards, dealt_cards, player_hand, dealer_hand, bankroll,
                 current_bet, round_active, bet, strategy, split_hands,
                 consecutive_losses, running_count, cards_seen, observed>>

\* strategy.should_take_insurance(hand, dealer_card)
StrategyInsurance ==
  /\ Called("should_take_insurance", should_take_insurance(strategy, G))
  /\ UNCHANGED <<deck_cards, dealt_cards, player_hand, dealer_hand, bankroll,
                 current_bet, round_active, bet, strategy, split_hands,
                 consecutive_losses, running_count, cards_seen, observed>>

StrategyNext == StrategyAddCard \/ StrategyDecide \/ StrategyInsurance

StrategySpec == StrategyInit /\ [][StrategyNext]_vars

\* The last call was decide on a strategy of class strat.
Decided(strat) == last.op = "decide" /\ strategy = strat

\* The value of the dealer's upcard, Ace = 11, and the value of the hand.
UpcardValue == numeric_value(dealer_hand[1].rank)
HandTotal == BestTotal(player_hand)

\* The rank of a pair (of a hand of two cards of one rank).
PairOf(ranks) ==
  /\ Len(player_hand) = 2
  /\ player_hand[1].rank = player_hand[2].rank
  /\ player_hand[1].rank \in ranks

AllRanks == {RankNames[i] : i \in 1..Len(RankNames)}

\* The hard-hand table of the basic strategy.
HardTable(v, d, can_double) ==
  CASE v >= 17 -> "STAND"
    [] v >= 13 /\ v <= 16 -> IF d <= 6 THEN "STAND" ELSE "HIT"
    [] v = 12 -> IF 4 <= d /\ d <= 6 THEN "STAND" ELSE "HIT"
    [] v = 11 -> IF can_double THEN "DOUBLE_DOWN" ELSE "HIT"
    [] v = 10 -> IF can_double /\ d <= 9 THEN "DOUBLE_DOWN" ELSE "HIT"
    [] v = 9 -> IF can_double /\ 3 <= d /\ d <= 6 THEN "DOUBLE_DOWN" ELSE "HIT"
    [] v <= 8 -> "HIT"

\* The soft-hand table of the basic strategy.
SoftTable(v, d, can_double) ==
  CASE v >= 19 -> "STAND"
    [] v = 18 -> IF d \in {9, 10, 11} THEN "HIT"
                 ELSE IF 3 <= d /\ d <= 6 /\ can_double THEN "DOUBLE_DOWN"
                 ELSE "STAND"
    [] v = 17 -> IF can_double /\ 3 <= d /\ d <= 6 THEN "DOUBLE_DOWN" ELSE "HIT"
    [] v \in 15..16 -> IF can_double /\ 4 <= d /\ d <= 6 THEN "DOUBLE_DOWN" ELSE "HIT"
    [] v \in 13..14 -> IF can_double /\ 5 <= d /\ d <= 6 THEN "DOUBLE_DOWN" ELSE "HIT"
    [] v <= 12 -> "HIT"

\* The pair table of the basic strategy: the pairs it splits, by dealer upcard value.
SplitTable(d) ==
  \/ PairOf({"ACE", "EIGHT"})
  \/ PairOf({"NINE"}) /\ d \notin {7, 10, 11}
  \/ PairOf({"TWO", "THREE", "SEVEN"}) /\ 2 <= d /\ d <= 7
  \/ PairOf({"FOUR"}) /\ d \in {5, 6}
  \/ PairOf({"SIX"}) /\ 2 <= d /\ d <= 6

\* C16: for every hand that is not soft and that the pair rule does not split,
\* BasicStrategy.decide returns the entry of the hard-hand table for the hand's value
\* and the dealer's upcard value (hard 16 against a dealer ten is HIT).
C16_BasicHardTable ==
  (/\ Decided("Basic")
   /\ ~CountsAnAceAs11(player_hand)
   /\ last.ret.action # "SPLIT")
    => last.ret.action = HardTable(HandTotal, UpcardValue, last.ret.can_double)

\* A hard 16 that is no pair against a dealer ten: HIT.
C16_Witness ==
  /\ Decided("Basic")
  /\ ~CountsAnAceAs11(player_hand)
  /\ ~PairOf(AllRanks)
  /\ HandTotal = 16
  /\ UpcardValue = 10
  /\ last.ret.action = "HIT"

\* C17: for every soft hand that the pair rule does not split, BasicStrategy.decide
\* returns the entry of the soft-hand table for the hand's value and the dealer's
\* upcard value.
C17_BasicSoftTable ==
  (/\ Decided("Basic")
   /\ CountsAnAceAs11(player_hand)
   /\ last.ret.action # "SPLIT")
    => last.ret.action = SoftTable(HandTotal, UpcardValue, last.ret.can_double)

C19_ConservativeRule ==
  Decided("Conservative") =>
    /\ last.ret.action =
         (IF PairOf({"ACE"}) /\ last.ret.can_split THEN "SPLIT"
          ELSE IF HandTotal >= 12 THEN "STAND"
          ELSE "HIT")
    /\ last.ret.action # "DOUBLE_DOWN"

\* A pair of eights with splitting and doubling allowed: value 16, STAND.
C19_Witness ==
  /\ Decided("Conservative")
  /\ PairOf({"EIGHT"})
  /\ last.ret.can_split /\ last.ret.can_double
  /\ last.ret.action = "STAND"

\* C20: AggressiveStrategy.decide returns, first applicable rule winning: SPLIT if the
\* hand is a pair, can_split is true and the rank is neither ten-valued nor 5; else
\* DOUBLE_DOWN if can_double and 9 <= value <= 12; else HIT if value < 18; else STAND.
C20_AggressiveRule ==
  Decided("Aggressive") =>
    last.ret.action =
      (IF /\ PairOf(AllRanks \ {"TEN", "JACK", "QUEEN", "KING", "FIVE"})
          /\ last.ret.can_split
       THEN "SPLIT"
       ELSE IF last.ret.can_double /\ 9 <= HandTotal /\ HandTotal <= 12
       THEN "DOUBLE_DOWN"
       ELSE IF HandTotal < 18 THEN "HIT"
       ELSE "STAND")

\* A hand worth 17 with doubling allowed: HIT.
C20_Witness ==
  /\ Decided("Aggressive")
  /\ HandTotal = 17
  /\ last.ret.can_double
  /\ last.ret.action = "HIT"

(***************************************************************************)
(* C21  MartingaleStrategy and CardCountingStrategy play BasicStrategy.    *)
(***************************************************************************)
\* The last call was should_take_insurance on a strategy of class strat.
Insured(strat) == last.op = "should_take_insurance" /\ strategy = strat

MaxObserved == 3

\* One card of each rank, in the order of the Rank enum.
OneOfEachRank == [i \in 1..Len(RankNames) |-> Card(RankNames[i], SuitNames[1])]

\* Game(player=Player(HighBankroll, strategy), bet=MinBet) on a shoe left in reset
\* order by the shuffle.
CounterInit ==
  /\ deck_cards = ResetCards
  /\ dealt_cards = <<>>
  /\ player_hand = <<>>
  /\ dealer_hand = <<>>
  /\ bankroll = HighBankroll
  /\ current_bet = 0
  /\ round_active = FALSE
  /\ bet = MinBet
  /\ strategy \in {"Martingale", "CardCounting"}
  /\ NewPlayer
  /\ last = [op |-> "init", ret |-> "none", bankroll |-> 0, remaining |-> 0]

\* strategy.record_loss()
RecordLoss ==
  /\ strategy = "Martingale"
  /\ consecutive_losses < MaxLosses
  /\ Becomes(record_loss(G))
  /\ Called("record_loss", "none")

\* strategy.record_win()
RecordWin ==
  /\ strategy = "Martingale"
  /\ Becomes(record_win(G))
  /\ Called("record_win", "none")

\* strategy.reset() on a MartingaleStrategy
MartingaleReset ==
  /\ strategy = "Martingale"
  /\ Becomes(martingale_reset(G))
  /\ Called("reset", "none")

\* strategy.get_bet_multiplier() on a MartingaleStrategy
GetBetMultiplier ==
  /\ strategy = "Martingale"
  /\ Becomes(G)
  /\ Called("get_bet_multiplier", get_bet_multiplier(G))

\* The fields of the strategy after a call that left them as g and was passed cards.
Counted(g, cards) ==
  /\ running_count' = g.running_count
  /\ cards_seen' = g.cards_seen
  /\ observed' = cards
  /\ UNCHANGED <<deck_cards, dealt_cards, player_hand, dealer_hand, bankroll,
                 current_bet, round_active, bet, strategy, split_hands,
                 consecutive_losses>>

\* strategy.update_count(card)
UpdateCount ==
  /\ strategy = "CardCounting"
  /\ Len(observed) < MaxObserved
  /\ \E card \in HandCards :
       Counted(update_count(G, card), Append(observed, card))
  /\ Called("update_count", "none")

RECURSIVE update_count_each(_, _)
\* for card in cards: strategy.update_count(card)
update_count_each(g, cards) ==
  IF cards = <<>> THEN g
  ELSE update_count_each(update_count(g, Head(cards)), Tail(cards))

\* A new or reset strategy is passed one card of each rank, in the order of the enum
\* or in the opposite order.
UpdateCountEachRank ==
  /\ strategy = "CardCounting"
  /\ observed = <<>>
  /\ \E cards \in {OneOfEachRank, Reversed(OneOfEachRank)} :
       Counted(update_count_each(G, cards), cards)
  /\ Called("update_count", "none")

\* strategy.reset() on a CardCountingStrategy
CountingReset ==
  /\ strategy = "CardCounting"
  /\ Counted(counting_reset(G), <<>>)
  /\ Called("reset", "none")

\* strategy.get_running_count()
GetRunningCount ==
  /\ strategy = "CardCounting"
  /\ Becomes(G)
  /\ Called("get_running_count", get_running_count(G))

\* strategy.decide(game.player.hand, game.dealer.up_card, can_double, can_split) on the
\* hands a round has dealt.
CounterDecide ==
  /\ Len(player_hand) >= 1 /\ Len(dealer_hand) >= 1
  /\ ~HasNone(player_hand) /\ ~HasNone(dealer_hand)
  /\ Becomes(G)
  /\ \E can_double, can_split \in BOOLEAN :
       Called("decide", decide(strategy, player_hand, dealer_hand[1],
                               can_double, can_split))

\* strategy.should_take_insurance(game.player.hand, game.dealer.up_card)
CounterInsurance ==
  /\ Becomes(G)
  /\ Called("should_take_insurance", should_take_insurance(strategy, G))

CounterNext ==
  \/ RecordLoss \/ RecordWin \/ MartingaleReset \/ GetBetMultiplier
  \/ UpdateCount \/ UpdateCountEachRank \/ CountingReset \/ GetRunningCount
  \/ CounterDecide \/ CounterInsurance \/ PlayAuto

CounterSpec == CounterInit /\ [][CounterNext]_vars

(***************************************************************************)
(* C22  The Martingale multiplier.                                         *)
(***************************************************************************)
\* What get_bet_multiplier would return in the current state.
Multiplier == get_bet_multiplier(G)

\* C22: a new Martingale strategy has multiplier 1; each record_loss doubles the
\* multiplier, each record_win and each reset brings it back to 1, and
\* get_bet_multiplier returns it without changing it; so the multiplier is 2^k with
\* k the number of losses recorded since the last win, the last reset or the
\* creation.
C22_MultiplierDoublesPerLoss ==
  /\ strategy = "Martingale" => Multiplier = 1
  /\ [][strategy = "Martingale" =>
          /\ last'.op = "record_loss" => Multiplier' = 2 * Multiplier
          /\ last'.op \in {"record_win", "reset"} => Multiplier' = 1
          /\ last'.op = "get_bet_multiplier" =>
                last'.ret = Multiplier /\ Multiplier' = Multiplier]_vars

\* Three losses in a row have been recorded and the multiplier read.
C22_Witness ==
  /\ strategy = "Martingale"
  /\ last.op = "get_bet_multiplier"
  /\ consecutive_losses = 3
  /\ last.ret = 8

(***************************************************************************)
(* C23  The Hi-Lo running count.                                           *)
(***************************************************************************)
LowRanks == {"TWO", "THREE", "FOUR", "FIVE", "SIX"}
HighRanks == {"TEN", "JACK", "QUEEN", "KING", "ACE"}

\* The number of cards of cards whose rank is in ranks.
NumberOf(cards, ranks) == Cardinality({i \in 1..Len(cards) : cards[i].rank \in ranks})

\* cards holds exactly one card of each of the 13 ranks.
OneOfEach(cards) ==
  /\ Len(cards) = Len(RankNames)
  /\ \A i \in 1..Len(RankNames) : NumberOf(cards, {RankNames[i]}) = 1

\* C23: the running count of a CardCounting strategy is the number of cards of rank
\* 2 to 6 minus the number of ten-valued cards and Aces among the cards passed to
\* update_count since the strategy was created or last reset, in whatever order they
\* came; the cards-seen counter is the number of those cards; one card of each of
\* the 13 ranks leaves the running count at 0, and after reset both counters are 0.
C23_RunningCountIsHiLo ==
  strategy = "CardCounting" =>
    /\ running_count = NumberOf(observed, LowRanks) - NumberOf(observed, HighRanks)
    /\ cards_seen = Len(observed)
    /\ OneOfEach(observed) => running_count = 0
    /\ last.op = "reset" => running_count = 0 /\ cards_seen = 0
    /\ last.op = "get_running_count" => last.ret = running_count

\* One card of each rank has been counted.
C23_Witness ==
  strategy = "CardCounting" /\ OneOfEach(observed) /\ last.op = "update_count"

(***************************************************************************)
(* C24  Playing leaves the strategy's state alone.                         *)
(***************************************************************************)
\* The state the strategy object keeps.
StrategyFields == <<consecutive_losses, running_count, cards_seen>>

\* C24: decide, should_take_insurance and a whole play_auto round leave the count of
\* consecutive losses, the running count and the cards-seen counter as they were;
\* a step that changes one of them is a record_win, a record_loss, an update_count
\* or a reset.
C24_OnlyRecordingChangesStrategy ==
  [][/\ last'.op \in {"decide", "should_take_insurance", "play_auto"} =>
          StrategyFields' = StrategyFields
     /\ StrategyFields' # StrategyFields =>
          last'.op \in {"record_win", "record_loss", "update_count", "reset"}]_vars

\* A round has been played by a strategy that holds a recorded loss or a nonzero
\* running count.
C24_Witness ==
  /\ last.op = "play_auto"
  /\ Len(player_hand) = 2
  /\ consecutive_losses > 0 \/ running_count # 0

(***************************************************************************)
(* C25  Every round runs to its end.                                       *)
(***************************************************************************)
\* C25: a play_auto round entered with bankroll >= bet on a shoe with enough cards
\* runs to its end and returns a result: after a natural the four dealt cards are
\* settled; otherwise the player's hand is the one the player's loop ends with, and
\* the round is a bust returned as a loss or the dealer's hand is the one the dealer's
\* loop ends with and the round is settled as win, loss or push.
C25_RoundRunsToItsEnd ==
  (RoundCall /\ EnoughCards) =>
    /\ last.ret \in Results
    /\ ~NoNatural => Len(player_hand) = 2 /\ Len(dealer_hand) = 2
    /\ NoNatural =>
         /\ player_hand = PlayerEnd.g.player_hand
         /\ PlayerValue > 21 => last.ret = "loss" /\ Len(dealer_hand) = 2
         /\ PlayerValue <= 21 => dealer_hand = DealerEnd.g.dealer_hand

(***************************************************************************)
(* C26  The result agrees with the money.                                  *)
(***************************************************************************)
\* A result ret returned with bankroll after by a round entered with bankroll before.
Agrees(ret, before, after) ==
  /\ ret = "win" => after > before
  /\ ret = "push" => after = before
  /\ ret = "loss" => after < before

\* C26: for a play_auto round entered with bankroll B >= bet, "win" is returned only
\* with the bankroll above B, "push" only with the bankroll at B and "loss" only with
\* the bankroll below B: stated of the call as it ran, and of the statements of the
\* round (game.py:79-111) run on the dealt hands.
C26_ResultAgreesWithMoney ==
  RoundCall =>
    /\ Agrees(last.ret, last.bankroll, bankroll)
    /\ NoNatural =>
         LET r == play_round(AfterDeal)
         IN Agrees(r.ret, last.bankroll, r.g.bankroll)

(***************************************************************************)
(* C27  A double down is made on two cards.                                *)
(***************************************************************************)
\* The first k cards of the hand the player's loop (game.py:80-100) ends with on the
\* dealt hands, and what the strategy answers on them.
LoopPrefix(k) == SubSeq(PlayerEnd.g.player_hand, 1, k)
LoopAnswer(k) ==
  decide(strategy, LoopPrefix(k), AfterDeal.dealer_hand[1], TRUE, is_pair(LoopPrefix(k)))

\* The loop asks the strategy on the first k cards: the value is below 21 and every
\* earlier query was answered HIT.
LoopQueries(k) ==
  /\ hand_value(LoopPrefix(k)) < 21
  /\ \A j \in 2..(k - 1) : hand_value(LoopPrefix(j)) < 21 /\ LoopAnswer(j) = "HIT"

\* The loop carries out a DOUBLE_DOWN on the first k cards.
DoublesOn(k) == LoopQueries(k) /\ LoopAnswer(k) = "DOUBLE_DOWN"

\* C27: when the player's loop of play_auto carries out a DOUBLE_DOWN, the hand holds
\* exactly two cards at that moment (hand.can_double_down is true): no hand that has
\* already hit is doubled.
C27_DoubleOnTwoCardsOnly ==
  (RoundCall /\ NoNatural /\ PlayerServed) =>
    \A k \in 2..Len(PlayerEnd.g.player_hand) : DoublesOn(k) => k = 2

(***************************************************************************)
(* C28  current_bet is the stake of the round.                             *)
(***************************************************************************)
\* C28: once start_round has dealt, player.current_bet is the amount staked in the
\* round: the base bet after the initial deal.
C28_CurrentBetIsStake ==
  ((StartCall \/ RoundCall) /\ Len(player_hand) >= 2 /\ round_active) =>
    current_bet = last.bankroll - bankroll

(***************************************************************************)
(* C29  round_active marks a round in progress.                            *)
(***************************************************************************)
\* C29: round_active is false before the first round and false again once a round
\* has ended: no play_auto call leaves it true, and the statements of the round
\* (game.py:79-111) run on the dealt hands leave it false.
C29_RoundActiveOnlyInRound ==
  /\ last.op = "init" => ~round_active
  /\ last.op = "play_auto" => ~round_active
  /\ (RoundCall /\ NoNatural) => ~play_round(AfterDeal).g.round_active

(***************************************************************************)
(* player.py: a Player on its own, given cards and asked to split.         *)
(***************************************************************************)
MaxPlayerHand == 3
MaxSplits == 2

\* The cards given to the player: two suits of four ranks.
SplitCards ==
  {Card(rank, suit) : rank \in {"EIGHT", "QUEEN", "KING", "ACE"},
                      suit \in {SuitNames[1], SuitNames[2]}}

\* Hand.cards: a copy of the list of cards.
hand_cards(cards) == cards

\* Player.split_hand.  card2 is popped from the list Hand.cards returns, a copy: the
\* list of the hand keeps it.
split_hand(g) ==
  IF ~is_pair(g.player_hand) THEN [g |-> g, ret |-> FALSE]
  ELSE LET copy == hand_cards(g.player_hand)
           card2 == copy[Len(copy)]
           new_hand == <<card2>>
       IN [g |-> [g EXCEPT !.split_hands = Append(@, new_hand)], ret |-> TRUE]

\* Player()
PlayerInit ==
  /\ player_hand = <<>>
  /\ dealer_hand = <<>>
  /\ deck_cards = <<>>
  /\ dealt_cards = <<>>
  /\ bankroll = HighBankroll
  /\ current_bet = 0
  /\ round_active = FALSE
  /\ bet = MinBet
  /\ strategy = "Basic"
  /\ NewPlayer
  /\ last = [op |-> "init", ret |-> "none", bankroll |-> 0, remaining |-> 0]

\* player.add_card(card)
PlayerAddCard ==
  /\ Len(player_hand) < MaxPlayerHand
  /\ \E card \in SplitCards :
       Becomes([G EXCEPT !.player_hand = add_card(@, card)])
  /\ Called("add_card", "none")

\* player.split_hand()
SplitHand ==
  /\ Len(split_hands) < MaxSplits
  /\ \E r \in {split_hand(G)} :
       Becomes(r.g) /\ Called("split_hand", BoolName(r.ret))

\* player.clear_hands()
PlayerClearHands ==
  /\ Becomes([clear_hands(G) EXCEPT !.dealer_hand = dealer_hand])
  /\ Called("clear_hands", "none")

PlayerNext == PlayerAddCard \/ SplitHand \/ PlayerClearHands

PlayerSpec == PlayerInit /\ [][PlayerNext]_vars

(***************************************************************************)
(* C30  split_hand conserves the cards.                                    *)
(***************************************************************************)
\* cards is two cards of the same rank.
TwoCardPair(cards) == Len(cards) = 2 /\ cards[1].rank = cards[2].rank

\* C30: on a two-card pair split_hand returns True, leaves the first card alone in
\* the active hand and appends to player.hands a new hand holding the second card,
\* so that the two hands hold exactly the two original cards; on any other hand it
\* returns False and changes neither the active hand nor player.hands.
C30_SplitConservesCards ==
  [][last'.op = "split_hand" =>
       IF TwoCardPair(player_hand)
       THEN /\ last'.ret = "True"
            /\ player_hand' = <<player_hand[1]>>
            /\ split_hands' = Append(split_hands, <<player_hand[2]>>)
       ELSE /\ last'.ret = "False"
            /\ UNCHANGED <<player_hand, split_hands>>]_vars

====
